---- MODULE Spec2Model ----
(***************************************************************************)
(* Lissajous audio generator (lissajous.py): the control logic of the wx   *)
(* frame.  AudioControl owns the per-channel controls (freq, mul, phase)   *)
(* and the pyo oscillators (func); mainFrame owns the buttons, the file    *)
(* queue, the multifile timer and the redraw timer.  Every wx event        *)
(* handler runs to completion on the single UI thread, so each handler is  *)
(* one atomic action.  An exception raised inside a handler is reported by *)
(* wx and the event loop goes on: the handler's remaining statements are   *)
(* skipped and the state it had written so far stays.                      *)
(***************************************************************************)
EXTENDS Integers, Sequences, FiniteSets, TLC

(***************************************************************************)
(* Bounds of the model.                                                    *)
(***************************************************************************)
\* Significand width of the modelled binary floating point (Python floats
\* carry 53 bits; TLC's integers are 32 bits wide).
MantBits == 8
\* Longest selection the file dialog returns.
MaxSel == 2
\* Number of spinner/slider events in a behaviour.
MaxEdits == 1
\* Number of save_press events in a behaviour.
MaxSaves == 1
\* Sample windows the audio engine can record are numbered 0..MaxFrame.
MaxFrame == 1

(***************************************************************************)
(* Program constants.                                                      *)
(***************************************************************************)
CH_CNT == 3 * 2
INIT_FREQ == 400
INIT_PHASE == 0

Channels == 0 .. (CH_CNT - 1)

(***************************************************************************)
(* Python float arithmetic.  A float is held as an integer count of        *)
(* 1/Unit; the representable values are those with at most MantBits        *)
(* significant bits (below Unit/4 the grid of 1/Unit itself, as for        *)
(* subnormals).  Every operation rounds its exact result to the nearest    *)
(* representable value, ties to even.                                      *)
(***************************************************************************)
\* Sequencing: the value of x, computed once, handed to F.
Then(x, F(_)) == CHOOSE y \in { F(v) : v \in {x} } : TRUE

Pow2(n) == 2 ^ n

Unit == Pow2(MantBits + 2)

RoundHalfEven(a, d) ==
    LET q == a \div d
        r == a % d
    IN  IF 2 * r < d THEN q
        ELSE IF 2 * r > d THEN q + 1
        ELSE IF q % 2 = 0 THEN q ELSE q + 1

RECURSIVE DropBits(_, _, _)
DropBits(a, b, e) ==
    IF a < b * Pow2(MantBits + e) THEN e ELSE DropBits(a, b, e + 1)

\* The float nearest to the rational a/b (a counted in 1/Unit).
FRound(a, b) ==
    LET e == DropBits(a, b, 0)
    IN  RoundHalfEven(a, b * Pow2(e)) * Pow2(e)

\* x * k and x / k for a float x and a Python int k.
FMul(x, k) == FRound(x * k, 1)
FDiv(x, k) == FRound(x, k)

\* float(i) of a Python int i.
IntToFloat(i) == FRound(i * Unit, 1)

INIT_MUL == FDiv(IntToFloat(5), 10)

(***************************************************************************)
(* CSV cells.  A cell is the decimal text n/d; d = 0 marks text that       *)
(* float() rejects.  float() rounds the decimal to the nearest float;      *)
(* csv.writer writes a float with repr(), the decimal that reads back as   *)
(* the same float.                                                         *)
(***************************************************************************)
Dec(n, d) == [n |-> n, d |-> d]
BadCell == Dec(0, 0)
IsNumeric(c) == c.d > 0
ParseFloat(c) == FRound(c.n * Unit, c.d)
\* repr(x): the exact value x/Unit, written in lowest terms.
RECURSIVE Reduce(_, _)
Reduce(n, d) == IF d > 1 /\ n % 2 = 0 THEN Reduce(n \div 2, d \div 2) ELSE Dec(n, d)
Repr(x) == Reduce(x, Unit)
Row(f, m, p) == <<f, m, p>>

(***************************************************************************)
(* Control ranges (init_audio).                                            *)
(***************************************************************************)
FreqMin == IntToFloat(20)
FreqMax == 20000 * Unit
SliderMin == 0
SliderMax == 105
PhaseMin == IntToFloat(0)
PhaseMax == IntToFloat(360)

\* FloatSpin.SetValue: a value outside [min_val, max_val] is dropped and the
\* control keeps its value.
FloatSpinSetValue(old, v, lo, hi) == IF lo <= v /\ v <= hi THEN v ELSE old

\* wx.Slider.SetValue: the float is truncated to an int and kept in range.
SliderSetValue(v) ==
    LET i == v \div Unit
    IN  IF i < SliderMin THEN SliderMin ELSE IF i > SliderMax THEN SliderMax ELSE i

(***************************************************************************)
(* The file system the dialogs reach.                                      *)
(***************************************************************************)
Files == {"a", "long", "bad", "out", "user"}
SavePath == "user"
NoFile == "none"

FileA == << Row(Dec(4400, 10), Dec(5, 10), Dec(0, 10)),
            Row(Dec(8800, 10), Dec(25, 100), Dec(5, 10)) >>
FileLong == [i \in 1 .. (CH_CNT + 1) |->
                Row(Dec(100 * i, 1), Dec(5, 10), Dec(25, 100))]
FileBad == << Row(Dec(4400, 10), Dec(5, 10), Dec(18, 100)),
              Row(Dec(2200, 10), BadCell, Dec(0, 10)) >>
FileOut == << Row(Dec(5, 1), Dec(2, 1), Dec(2, 1)) >>

\* The files that are there from the start; nothing writes them.
Preset == [f \in Files \ {SavePath} |->
    IF f = "a" THEN [exists |-> TRUE, rows |-> FileA]
    ELSE IF f = "long" THEN [exists |-> TRUE, rows |-> FileLong]
    ELSE IF f = "bad" THEN [exists |-> TRUE, rows |-> FileBad]
    ELSE [exists |-> TRUE, rows |-> FileOut]]

\* SavePath does not exist until save_press writes it.
NotSaved == [exists |-> FALSE, rows |-> << >>]

\* What open(fname) finds, s being the content of SavePath.
Disk(fname, s) == IF fname = SavePath THEN s ELSE Preset[fname]

VARIABLES
    audio,          \* AudioControl: freq, mul, phase controls and func oscillators
    filelist,       \* mainFrame.filelist
    multifile_timer,\* TRUE while the multifile timer runs
    server,         \* TRUE while the pyo server is started
    startButton,    \* label of the start button
    saved,          \* content of the file at SavePath
    graphing,       \* mainFrame.graphing
    trig_tbl,       \* TableRec: "play" or "stop"
    grphButton,     \* label of the graph button
    table,          \* sample window held by the table
    plot_data,      \* sample window drawn on the canvas
    recording,      \* AudioControl.recording
    recButton,      \* label of the record button
    sel,            \* history: the paths of the latest load_press
    loaded,         \* history: the paths popped since the latest load_press
    ticks,          \* history: multifile timer ticks since the latest load_press
    last,           \* history: the handler that ran last and its outcome
    ghist,          \* history: the latest (up to three) values of graphing
    nEdits,         \* spinner/slider events so far
    nSaves          \* save_press events so far

vars == << audio, filelist, multifile_timer, server, startButton, saved,
           graphing, trig_tbl, grphButton, table, plot_data, recording,
           recButton, sel, loaded, ticks, last, ghist,
           nEdits, nSaves >>

playVars == << audio, filelist, multifile_timer, server, startButton, saved,
               sel, loaded, ticks, nEdits, nSaves >>
graphVars == << graphing, trig_tbl, grphButton, table, plot_data, recording,
                recButton, ghist >>

Last(op, file, status, failrow, stopped) ==
    [op |-> op, file |-> file, status |-> status, failrow |-> failrow,
     stopped |-> stopped]
Did(op) == Last(op, NoFile, "none", -1, FALSE)

(***************************************************************************)
(* AudioControl                                                            *)
(***************************************************************************)
\* init_audio: one FloatSpin, Slider, FloatSpin and Sine per channel.
init_audio ==
    LET m(i) == IF i = 0 \/ i = CH_CNT \div 2 THEN INIT_MUL ELSE IntToFloat(0)
    IN  [ freq  |-> [i \in Channels |-> IntToFloat(INIT_FREQ)],
          mul   |-> [i \in Channels |-> SliderSetValue(FMul(m(i), 100))],
          phase |-> [i \in Channels |-> IntToFloat(INIT_PHASE)],
          func  |-> [i \in Channels |->
                        [freq |-> IntToFloat(INIT_FREQ), mul |-> m(i),
                         phase |-> IntToFloat(0)]] ]

\* reset_phase: every oscillator takes its phase control's value / 360.
reset_phase(a) ==
    [a EXCEPT !.func = [i \in Channels |->
        [a.func[i] EXCEPT !.phase = FDiv(a.phase[i], 360)]]]

\* SetRow with each oscillator setter moved up next to its control's SetValue.
SetRow_OscFirst(a, idx, f) ==
    IF idx >= CH_CNT THEN [a |-> a, ok |-> FALSE]
    ELSE IF ~IsNumeric(f[1]) THEN [a |-> a, ok |-> FALSE]
    ELSE Then([a EXCEPT !.freq[idx] =
                  FloatSpinSetValue(@, ParseFloat(f[1]), FreqMin, FreqMax),
                        !.func[idx].freq = ParseFloat(f[1])],
      LAMBDA a1 :
        IF ~IsNumeric(f[2]) THEN [a |-> a1, ok |-> FALSE]
        ELSE Then([a1 EXCEPT !.mul[idx] =
                      SliderSetValue(FMul(ParseFloat(f[2]), 100)),
                             !.func[idx].mul = ParseFloat(f[2])],
          LAMBDA a2 :
            IF ~IsNumeric(f[3]) THEN [a |-> a2, ok |-> FALSE]
            ELSE [a |-> [a2 EXCEPT
                            !.phase[idx] = FloatSpinSetValue(@,
                                FMul(ParseFloat(f[3]), 360), PhaseMin, PhaseMax),
                            !.func[idx].phase = ParseFloat(f[3])],
                  ok |-> TRUE]))

\* One pass of the loop of set_audio_params, for row f at index idx.  The
\* statements run in order; the first that raises ends the pass.
SetRow(a, idx, f) ==
    IF idx >= CH_CNT THEN [a |-> a, ok |-> FALSE]
    ELSE IF ~IsNumeric(f[1]) THEN [a |-> a, ok |-> FALSE]
    ELSE Then([a EXCEPT !.freq[idx] =
                  FloatSpinSetValue(@, ParseFloat(f[1]), FreqMin, FreqMax)],
      LAMBDA a1 :
        IF ~IsNumeric(f[2]) THEN [a |-> a1, ok |-> FALSE]
        ELSE Then([a1 EXCEPT !.mul[idx] =
                      SliderSetValue(FMul(ParseFloat(f[2]), 100))],
          LAMBDA a2 :
            IF ~IsNumeric(f[3]) THEN [a |-> a2, ok |-> FALSE]
            ELSE [a |-> [a2 EXCEPT
                            !.phase[idx] = FloatSpinSetValue(@,
                                FMul(ParseFloat(f[3]), 360), PhaseMin, PhaseMax),
                            !.func[idx] = [freq |-> ParseFloat(f[1]),
                                           mul |-> ParseFloat(f[2]),
                                           phase |-> ParseFloat(f[3])]],
                  ok |-> TRUE]))

RECURSIVE ApplyRows(_, _, _)
ApplyRows(a, funclist, idx) ==
    IF idx >= Len(funclist) THEN [a |-> a, failrow |-> -1]
    ELSE Then(SetRow(a, idx, funclist[idx + 1]),
           LAMBDA r : IF r.ok THEN ApplyRows(r.a, funclist, idx + 1)
                      ELSE [a |-> r.a, failrow |-> idx])

\* set_audio_params: the rows in order, then reset_phase.  failrow is the
\* index of the row that raised, -1 when none did.
set_audio_params(a, funclist) ==
    Then(ApplyRows(a, funclist, 0),
      LAMBDA r : IF r.failrow = -1
                 THEN [a |-> reset_phase(r.a), failrow |-> -1] ELSE r)

\* get_audio_params, as csv.writer writes it.
get_audio_params(a) ==
    [k \in 1 .. CH_CNT |->
        Row(Repr(a.func[k - 1].freq), Repr(a.func[k - 1].mul),
            Repr(a.func[k - 1].phase))]

\* toggle_graph whose pause branch forgets start_buffer(False).
toggle_graph_NoDisarm(g) ==
    IF g.graphing = FALSE
    THEN [graphing |-> TRUE, trig_tbl |-> "play", grphButton |-> "Pause Graph"]
    ELSE [graphing |-> FALSE, trig_tbl |-> g.trig_tbl,
          grphButton |-> "Start Graph"]

(***************************************************************************)
(* mainFrame                                                               *)
(***************************************************************************)
\* toggle_graph on the display fields.
toggle_graph(g) ==
    IF g.graphing = FALSE
    THEN [graphing |-> TRUE, trig_tbl |-> "play", grphButton |-> "Pause Graph"]
    ELSE [graphing |-> FALSE, trig_tbl |-> "stop", grphButton |-> "Start Graph"]

\* init_frame and init_audio leave the display loop like this before
\* __init__ calls toggle_graph.
Constructed ==
    [graphing |-> FALSE, trig_tbl |-> "stop", grphButton |-> "Pause Graph"]

InitDisplay == toggle_graph(Constructed)

Frames == 0 .. MaxFrame
\* init_graph plots the single point (0, 0), no sample window yet.
NoPlot == 0 - 1

Init ==
    /\ audio = init_audio
    /\ filelist = << >>
    /\ multifile_timer = FALSE
    /\ server = FALSE
    /\ startButton = "Start"
    /\ saved = NotSaved
    /\ graphing = InitDisplay.graphing
    /\ trig_tbl = InitDisplay.trig_tbl
    /\ grphButton = InitDisplay.grphButton
    /\ table = 0
    /\ plot_data = NoPlot
    /\ recording = FALSE
    /\ recButton = "Record WAV"
    /\ sel = << >>
    /\ loaded = << >>
    /\ ticks = 0
    /\ last = Did("init")
    /\ ghist = << InitDisplay.graphing >>
    /\ nEdits = 0
    /\ nSaves = 0

\* start_next_file with pop() in place of pop(0).
start_next_file_PopLast(fl, a, s) ==
    IF Len(fl) > 0
    THEN LET fname == fl[Len(fl)]
         IN  IF ~Disk(fname, s).exists
             THEN [filelist |-> SubSeq(fl, 1, Len(fl) - 1), audio |-> a,
                   file |-> fname, status |-> "missing", failrow |-> -1]
             ELSE Then(set_audio_params(a, Disk(fname, s).rows),
                    LAMBDA r :
                      [filelist |-> SubSeq(fl, 1, Len(fl) - 1), audio |-> r.a,
                       file |-> fname,
                       status |-> IF r.failrow = -1 THEN "ok" ELSE "row_error",
                       failrow |-> r.failrow])
    ELSE [filelist |-> fl, audio |-> a, file |-> NoFile, status |-> "none",
          failrow |-> -1]

\* start_next_file: pop the head of the queue, open it, apply its rows.  The
\* path is popped before open() or set_audio_params can raise.
start_next_file(fl, a, s) ==
    IF Len(fl) > 0
    THEN LET fname == Head(fl)
         IN  IF ~Disk(fname, s).exists
             THEN [filelist |-> Tail(fl), audio |-> a, file |-> fname,
                   status |-> "missing", failrow |-> -1]
             ELSE Then(set_audio_params(a, Disk(fname, s).rows),
                    LAMBDA r :
                      [filelist |-> Tail(fl), audio |-> r.a, file |-> fname,
                       status |-> IF r.failrow = -1 THEN "ok" ELSE "row_error",
                       failrow |-> r.failrow])
    ELSE [filelist |-> fl, audio |-> a, file |-> NoFile, status |-> "none",
          failrow |-> -1]

\* The selections GetPaths can return: distinct paths, at most MaxSel.
RECURSIVE SeqsUpTo(_)
SeqsUpTo(n) ==
    IF n = 0 THEN { << >> }
    ELSE LET S == SeqsUpTo(n - 1)
         IN  S \cup { Append(s, f) : s \in { t \in S : Len(t) = n - 1 }, f \in Files }
Distinct(s) == \A i, j \in 1 .. Len(s) : i # j => s[i] # s[j]
Selections == { s \in SeqsUpTo(MaxSel) : Distinct(s) }

\* load_press with the dialog closed by OK on the given paths.  (A cancelled
\* dialog changes nothing.)
load_press(paths) ==
    /\ \E r \in { start_next_file(paths, audio, saved) } :
           /\ filelist' = r.filelist
           /\ audio' = r.audio
           /\ loaded' = IF r.file = NoFile THEN << >> ELSE << r.file >>
           /\ last' = Last("load_press", r.file, r.status, r.failrow, FALSE)
    /\ multifile_timer' = IF Len(paths) > 1 THEN TRUE ELSE multifile_timer
    /\ sel' = paths
    /\ ticks' = 0
    /\ UNCHANGED << server, startButton, saved, nEdits, nSaves >>
    /\ UNCHANGED graphVars

\* on_multifile_timer whose completion branch leaves the engine running.
on_multifile_timer_EngineOn ==
    /\ multifile_timer
    /\ IF Len(filelist) <= 0
       THEN /\ multifile_timer' = FALSE
            /\ startButton' = "Start"
            /\ last' = Last("playback_complete", NoFile, "none", -1, server)
            /\ UNCHANGED << filelist, audio, loaded, server >>
       ELSE \E r \in { start_next_file(filelist, audio, saved) } :
                /\ filelist' = r.filelist
                /\ audio' = r.audio
                /\ loaded' = Append(loaded, r.file)
                /\ last' = Last("timer_load", r.file, r.status, r.failrow, FALSE)
                /\ UNCHANGED << multifile_timer, server, startButton >>
    /\ ticks' = ticks + 1
    /\ UNCHANGED << saved, sel, nEdits, nSaves >>
    /\ UNCHANGED graphVars

\* on_multifile_timer: a tick of the running multifile timer.
on_multifile_timer ==
    /\ multifile_timer
    /\ IF Len(filelist) <= 0
       THEN /\ multifile_timer' = FALSE
            /\ server' = FALSE
            /\ startButton' = "Start"
            /\ last' = Last("playback_complete", NoFile, "none", -1, server)
            /\ UNCHANGED << filelist, audio, loaded >>
       ELSE \E r \in { start_next_file(filelist, audio, saved) } :
                /\ filelist' = r.filelist
                /\ audio' = r.audio
                /\ loaded' = Append(loaded, r.file)
                /\ last' = Last("timer_load", r.file, r.status, r.failrow, FALSE)
                /\ UNCHANGED << multifile_timer, server, startButton >>
    /\ ticks' = ticks + 1
    /\ UNCHANGED << saved, sel, nEdits, nSaves >>
    /\ UNCHANGED graphVars

\* start_press whose stop branch resets the label only.
start_press_LabelOnly ==
    /\ IF startButton = "Start"
       THEN startButton' = "Stop" /\ server' = TRUE
       ELSE startButton' = "Start" /\ server' = server
    /\ last' = Did("start_press")
    /\ UNCHANGED << audio, filelist, multifile_timer, saved, sel, loaded, ticks,
                    nEdits, nSaves >>
    /\ UNCHANGED graphVars

\* start_press: toggle the audio server by the button's label.
start_press ==
    /\ IF startButton = "Start"
       THEN startButton' = "Stop" /\ server' = TRUE
       ELSE startButton' = "Start" /\ server' = FALSE
    /\ last' = Did("start_press")
    /\ UNCHANGED << audio, filelist, multifile_timer, saved, sel, loaded, ticks, nEdits, nSaves >>
    /\ UNCHANGED graphVars

\* save_press with the dialog closed by OK on SavePath.
save_press ==
    /\ nSaves < MaxSaves
    /\ saved' = [exists |-> TRUE, rows |-> get_audio_params(audio)]
    /\ nSaves' = nSaves + 1
    /\ last' = Did("save_press")
    /\ UNCHANGED << audio, filelist, multifile_timer, server, startButton, sel,
                    loaded, ticks, nEdits >>
    /\ UNCHANGED graphVars

\* What the user can put into a control: the control keeps it in range.
EditChannels == {0, CH_CNT - 1}
FreqInputs == {IntToFloat(20), IntToFloat(1000)}
SliderInputs == {SliderMin, SliderMax}
PhaseInputs == {IntToFloat(90), IntToFloat(360)}

\* fspin: the frequency spinner of channel chidx now shows v.
fspin(chidx, v) ==
    /\ nEdits < MaxEdits
    /\ audio' = [audio EXCEPT !.freq[chidx] = v, !.func[chidx].freq = v]
    /\ nEdits' = nEdits + 1
    /\ last' = Did("fspin")
    /\ UNCHANGED << filelist, multifile_timer, server, startButton, saved, sel,
                    loaded, ticks, nSaves >>
    /\ UNCHANGED graphVars

\* mspin: the amplitude slider of channel chidx now shows v.
mspin(chidx, v) ==
    /\ nEdits < MaxEdits
    /\ audio' = [audio EXCEPT !.mul[chidx] = v,
                              !.func[chidx].mul = FDiv(IntToFloat(v), 100)]
    /\ nEdits' = nEdits + 1
    /\ last' = Did("mspin")
    /\ UNCHANGED << filelist, multifile_timer, server, startButton, saved, sel,
                    loaded, ticks, nSaves >>
    /\ UNCHANGED graphVars

\* phspin: the phase spinner of channel chidx now shows v; reset_phase.
phspin(chidx, v) ==
    /\ nEdits < MaxEdits
    /\ audio' = reset_phase([audio EXCEPT !.phase[chidx] = v])
    /\ nEdits' = nEdits + 1
    /\ last' = Did("phspin")
    /\ UNCHANGED << filelist, multifile_timer, server, startButton, saved, sel,
                    loaded, ticks, nSaves >>
    /\ UNCHANGED graphVars

\* graph_press: toggle_graph.
graph_press ==
    /\ LET g == toggle_graph([graphing |-> graphing, trig_tbl |-> trig_tbl,
                              grphButton |-> grphButton])
       IN  /\ graphing' = g.graphing
           /\ trig_tbl' = g.trig_tbl
           /\ grphButton' = g.grphButton
           /\ ghist' = IF Len(ghist) < 3 THEN Append(ghist, g.graphing)
                       ELSE Append(Tail(ghist), g.graphing)
    /\ last' = Did("graph_press")
    /\ UNCHANGED << table, plot_data, recording, recButton >>
    /\ UNCHANGED playVars

\* on_redraw_timer without the test of graphing.
on_redraw_timer_Unguarded ==
    /\ plot_data' = table
    /\ trig_tbl' = "play"
    /\ last' = Did("on_redraw_timer")
    /\ UNCHANGED << graphing, grphButton, table, recording, recButton, ghist >>
    /\ UNCHANGED playVars

\* on_redraw_timer: a tick of the redraw timer, which always runs.
on_redraw_timer ==
    /\ IF graphing
       THEN /\ plot_data' = table
            /\ trig_tbl' = "play"
       ELSE UNCHANGED << plot_data, trig_tbl >>
    /\ last' = Did("on_redraw_timer")
    /\ UNCHANGED << graphing, grphButton, table, recording, recButton, ghist >>
    /\ UNCHANGED playVars

\* The audio engine: while the TableRec plays it records a new sample window
\* into the table.
TableRec ==
    /\ trig_tbl = "play"
    /\ \E w \in Frames \ {table} : table' = w
    /\ last' = Did("TableRec")
    /\ UNCHANGED << graphing, trig_tbl, grphButton, plot_data, recording,
                    recButton, ghist >>
    /\ UNCHANGED playVars

\* rec_press: AudioControl.record toggles the recording, then the label.
rec_press ==
    /\ recording' = ~recording
    /\ recButton' = IF recording' THEN "Record Stop" ELSE "Record Start"
    /\ last' = Did("rec_press")
    /\ UNCHANGED << graphing, trig_tbl, grphButton, table, plot_data, ghist >>
    /\ UNCHANGED playVars

LoadPress == \E paths \in Selections : load_press(paths)
LoadOne == \E f \in Files : load_press(<< f >>)
FSpin == \E c \in EditChannels, v \in FreqInputs : fspin(c, v)
MSpin == \E c \in EditChannels, v \in SliderInputs : mspin(c, v)
PhSpin == \E c \in EditChannels, v \in PhaseInputs : phspin(c, v)

\* The playback queue: file selections, the multifile timer, the engine.
Next ==
    \/ LoadPress
    \/ on_multifile_timer
    \/ start_press

Spec == Init /\ [][Next]_vars

\* The parameter store: one file loaded at a time, saving, the controls.
NextStore ==
    \/ LoadOne
    \/ save_press
    \/ FSpin
    \/ MSpin
    \/ PhSpin

SpecStore == Init /\ [][NextStore]_vars

\* The display loop: graph button, redraw timer, table recorder, recording.
NextGraph ==
    \/ graph_press
    \/ on_redraw_timer
    \/ TableRec
    \/ rec_press

SpecGraph == Init /\ [][NextGraph]_vars

(***************************************************************************)
(* Properties                                                              *)
(***************************************************************************)
Min(a, b) == IF a < b THEN a ELSE b

\* The declared ranges of a channel: frequency 20..20000 Hz, amplitude
\* 0..105/100, phase 0..1.
MulMax == FDiv(IntToFloat(SliderMax), 100)
InRange(o) ==
    /\ FreqMin <= o.freq /\ o.freq <= FreqMax
    /\ 0 <= o.mul /\ o.mul <= MulMax
    /\ 0 <= o.phase /\ o.phase <= Unit

\* The oscillator settings a numeric row stands for.
RowValues(f) ==
    [freq |-> ParseFloat(f[1]), mul |-> ParseFloat(f[2]),
     phase |-> ParseFloat(f[3])]
NumericRow(f) == IsNumeric(f[1]) /\ IsNumeric(f[2]) /\ IsNumeric(f[3])
RowsInRange(rows) ==
    \A i \in 1 .. Len(rows) : NumericRow(rows[i]) /\ InRange(RowValues(rows[i]))

LoadOps == {"load_press", "timer_load"}

\* C1: a load_press with no file leaves the multifile timer as it was; after
\* a load_press with N >= 2 files and t ticks, exactly the first min(t+1, N)
\* files have been taken, in order, the timer runs while t < N, and the tick
\* that finds the queue empty (t = N) stops the timer and the engine and
\* resets the start button to 'Start'.
C1_QueueOrder ==
    Len(sel) >= 2 =>
        /\ ticks <= Len(sel)
        /\ loaded = SubSeq(sel, 1, Min(ticks + 1, Len(sel)))
        /\ multifile_timer <=> (ticks < Len(sel))
        /\ (last.op = "playback_complete") =>
               /\ ticks = Len(sel)
               /\ ~multifile_timer
               /\ ~server
               /\ startButton = "Start"
C1_PlaybackQueue ==
    /\ []C1_QueueOrder
    /\ [][ (last'.op = "load_press" /\ Len(sel') = 0) =>
               multifile_timer' = multifile_timer ]_vars
C1_Witness ==
    /\ Len(sel) = 2
    /\ loaded = sel
    /\ last.op = "playback_complete"
    /\ last.stopped

\* C2: while the latest selection is a single file, that file has been
\* loaded once and no tick of the multifile timer stops a running engine.
C2_SingleFile ==
    Len(sel) = 1 =>
        /\ loaded = sel
        /\ ~(last.op = "playback_complete" /\ last.stopped)

\* C3: a load of a file whose R rows are all numeric and in range completes
\* without failure, sets channels 0..min(R, CH_CNT)-1 from rows
\* 0..min(R, CH_CNT)-1 in order and leaves channels R..CH_CNT-1 as they were.
C3_RowCount ==
    [][ ( /\ last'.op \in LoadOps
          /\ last'.status \in {"ok", "row_error"}
          /\ RowsInRange(Disk(last'.file, saved).rows) ) =>
        LET rows == Disk(last'.file, saved).rows
        IN  /\ last'.status = "ok"
            /\ \A ch \in Channels :
                   IF ch < Len(rows)
                   THEN audio'.func[ch] = RowValues(rows[ch + 1])
                   ELSE audio'.func[ch] = audio.func[ch] ]_vars

\* C4: loading the file save_press wrote, when every saved row is in range,
\* gives every channel the frequency, amplitude and phase that were saved.
C4_RoundTrip ==
    ( /\ last.op = "load_press"
      /\ last.file = SavePath
      /\ saved.exists
      /\ RowsInRange(saved.rows) ) =>
        /\ last.status = "ok"
        /\ \A ch \in Channels : audio.func[ch] = RowValues(saved.rows[ch + 1])

\* C5: every oscillator's frequency, amplitude and phase are inside the
\* declared ranges.
C5_Clamped == \A ch \in Channels : InRange(audio.func[ch])

\* C6: a load that fails (file missing, or row k raising) leaves channels
\* 0..k-1 with the values of rows 0..k-1, leaves every other channel's
\* oscillator as it was, takes the file off the queue for good and leaves
\* the timer, the engine and the saved file alone.
C6_FailedLoad ==
    [][ ( /\ last'.op \in LoadOps
          /\ last'.status \in {"missing", "row_error"} ) =>
        LET k == IF last'.status = "missing" THEN 0 ELSE last'.failrow
            rows == Disk(last'.file, saved).rows
        IN  /\ \A ch \in Channels :
                   IF ch < k
                   THEN audio'.func[ch] = RowValues(rows[ch + 1])
                   ELSE audio'.func[ch] = audio.func[ch]
            /\ \A i \in 1 .. Len(filelist') : filelist'[i] # last'.file
            /\ loaded'[Len(loaded')] = last'.file
            /\ last'.op = "timer_load" => multifile_timer' = multifile_timer
            /\ UNCHANGED << server, startButton, saved >> ]_vars
C6_Witness ==
    /\ last.op = "timer_load"
    /\ last.status = "row_error"
    /\ last.failrow = 1
    /\ audio.func[0] = RowValues(FileBad[1])

\* C7 as written: after Paused -> Running -> Paused the sample buffer is
\* disarmed and the button reads 'Start Graph', and that is the state the
\* display loop and the buffer start in.
C7_Original ==
    ghist = << FALSE, TRUE, FALSE >> =>
        /\ ~graphing
        /\ trig_tbl = "stop"
        /\ grphButton = "Start Graph"
        /\ [graphing |-> graphing, trig_tbl |-> trig_tbl,
            grphButton |-> grphButton] = InitDisplay

\* C7 amended: after Paused -> Running -> Paused the sample buffer is
\* disarmed and the button reads 'Start Graph'; the frame itself starts
\* Running, with the buffer armed and the button reading 'Pause Graph'.
C7_ToggleCycle ==
    /\ ghist = << FALSE, TRUE, FALSE >> =>
           /\ ~graphing
           /\ trig_tbl = "stop"
           /\ grphButton = "Start Graph"
    /\ last.op = "init" =>
           /\ graphing
           /\ trig_tbl = "play"
           /\ grphButton = "Pause Graph"
C7_Witness ==
    /\ ghist = << FALSE, TRUE, FALSE >>
    /\ last.op = "graph_press"

\* C8: the files taken so far followed by the files still queued are the
\* selection, in its order; no file is taken twice, and at most one file is
\* taken per load step.
C8_SelectionOrder ==
    /\ loaded \o filelist = sel
    /\ Distinct(loaded)
    /\ Len(loaded) <= ticks + 1
C8_Witness ==
    /\ Len(sel) = 2
    /\ loaded = sel
    /\ last.op = "timer_load"

\* C9: a redraw tick while Paused changes nothing of the display loop, so
\* the buffer stays disarmed whenever the loop is Paused; a tick while
\* Running draws the window it read and re-arms the buffer.
C9_PausedTick ==
    /\ [](~graphing => trig_tbl = "stop")
    /\ [][ last'.op = "on_redraw_timer" =>
             IF graphing
             THEN /\ plot_data' = table
                  /\ trig_tbl' = "play"
                  /\ UNCHANGED << graphing, grphButton, table >>
             ELSE UNCHANGED graphVars ]_vars
C9_Witness ==
    /\ ~graphing
    /\ trig_tbl = "stop"
    /\ last.op = "on_redraw_timer"

\* C10: the start button reads 'Stop' exactly when the server is started
\* and 'Start' exactly when it is not.
C10_LabelMatchesServer ==
    /\ startButton \in {"Start", "Stop"}
    /\ (startButton = "Stop") <=> server
C10_Witness ==
    /\ last.op = "playback_complete"
    /\ last.stopped
    /\ startButton = "Start"
    /\ ~server

====
